---- MODULE Spec2Model ----
(***************************************************************************)
(* A model of jmullan.cmd: the environment probe, the hint formatter, the  *)
(* colour default, the argument helpers and the help formatter of          *)
(* auto_config.py; the file helpers, the processors, the docstring search  *)
(* and the signal handling of cmd.py; the RequestsHandle.                  *)
(*                                                                         *)
(* A Python str is a sequence of one-character strings; Text renders it as *)
(* one string, so that f-strings become concatenations.  A Python value    *)
(* that may be a str, None, the MISSING sentinel or a bool is a record     *)
(* [tag, chars].                                                           *)
(***************************************************************************)
EXTENDS Naturals, Sequences, FiniteSets, TLC

VARIABLES
    environ,    \* os.environ: a function from the names that are set to their values
    isatty,     \* sys.stdout.isatty()
    encoding,   \* sys.stdout.encoding
    op,         \* the operation called last ("init" before any call)
    args,       \* its arguments
    ret,        \* what it returned or raised
    files,      \* the files of the working directory: a function from paths to contents
    stdin,      \* sys.stdin: the text not read yet, and whether it is closed
    stdout,     \* the text written to sys.stdout
    writes,     \* the paths opened for writing, in order
    web,        \* what a GET of each URL answers
    handle,     \* the RequestsHandle: its fields response and _closed
    response,   \* the requests.Response behind the handle
    GO,         \* Jmullan.GO
    PIPE_OK,    \* Jmullan.PIPE_OK
    hooks,      \* the handlers of SIGINT and SIGPIPE, and sys.excepthook
    stderr,     \* sys.stderr: whether it is closed, and the tracebacks printed
    handled,    \* the signals handle_signal has been called with, in order
    main_call,  \* FileNameProcessor.main: where it stands, and what it has done
    exit_status \* <<>> while the process runs, <<status>> once it has exited

auto_config_vars == <<environ, isatty, encoding>>

cmd_vars ==
    <<files, stdin, stdout, writes, web, handle, response,
      GO, PIPE_OK, hooks, stderr, handled, main_call, exit_status>>

vars == <<auto_config_vars, op, args, ret, cmd_vars>>

----------------------------------------------------------------------------
(* Python values *)

Str(s) == [tag |-> "str", chars |-> s]
None == [tag |-> "None", chars |-> <<>>]
MISSING == [tag |-> "_MISSING", chars |-> <<>>]
True == [tag |-> "True", chars |-> <<>>]
False == [tag |-> "False", chars |-> <<>>]

Bool(b) == IF b THEN True ELSE False

is_str(v) == v.tag = "str"

\* bool(v): _MISSING.__bool__ returns False, None is falsy, a str is truthy
\* when it is not empty.
truthy(v) ==
    CASE v.tag = "True" -> TRUE
      [] v.tag = "str" -> Len(v.chars) > 0
      [] OTHER -> FALSE

RECURSIVE Text(_)
Text(s) == IF s = <<>> THEN "" ELSE Head(s) \o Text(Tail(s))

UpperChars ==
    <<"A", "B", "C", "D", "E", "F", "G", "H", "I", "J", "K", "L", "M",
      "N", "O", "P", "Q", "R", "S", "T", "U", "V", "W", "X", "Y", "Z">>

LowerChars ==
    <<"a", "b", "c", "d", "e", "f", "g", "h", "i", "j", "k", "l", "m",
      "n", "o", "p", "q", "r", "s", "t", "u", "v", "w", "x", "y", "z">>

lower_char(c) ==
    IF \E i \in DOMAIN UpperChars : UpperChars[i] = c
    THEN LowerChars[CHOOSE i \in DOMAIN UpperChars : UpperChars[i] = c]
    ELSE c

\* str.lower()
lower(s) == [i \in 1..Len(s) |-> lower_char(s[i])]

\* str.upper()
upper_char(c) ==
    IF \E i \in DOMAIN LowerChars : LowerChars[i] = c
    THEN UpperChars[CHOOSE i \in DOMAIN LowerChars : LowerChars[i] = c]
    ELSE c

upper(s) == [i \in 1..Len(s) |-> upper_char(s[i])]

\* lit in s, for a non-empty literal
contains(s, lit) ==
    \E i \in 1..Len(s) :
        /\ i + Len(lit) - 1 <= Len(s)
        /\ Text(SubSeq(s, i, i + Len(lit) - 1)) = lit

Whitespace == {" ", "\t", "\n"}

\* len(s.strip()) > 0
strip_not_empty(s) == \E i \in 1..Len(s) : s[i] \notin Whitespace

----------------------------------------------------------------------------
(* Names of environment variables *)

NO_COLOR == <<"N", "O", "_", "C", "O", "L", "O", "R">>
CLICOLOR_FORCE == <<"C", "L", "I", "C", "O", "L", "O", "R", "_", "F", "O", "R", "C", "E">>
CLICOLOR == <<"C", "L", "I", "C", "O", "L", "O", "R">>
TERM == <<"T", "E", "R", "M">>
FOOBAR == <<"F", "O", "O", "B", "A", "R">>
FOO_BAR == <<"F", "O", "O", "_", "B", "A", "R">>
DB_Password == <<"D", "B", "_", "P", "a", "s", "s", "w", "o", "r", "d">>
API_TOKEN == <<"A", "P", "I", "_", "T", "O", "K", "E", "N">>

----------------------------------------------------------------------------
(* The environment probe *)

\* A probe that collapses emptiness into absence (os.environ.get(key) or default).
get_environ_collapsing(key, default) ==
    IF key \notin DOMAIN environ \/ environ[key] = <<>>
    THEN default
    ELSE Str(environ[key])

get_environ(key, default) ==
    IF key \notin DOMAIN environ
    THEN default
    ELSE Str(environ[key])

stdout_is_a_tty == isatty

stdout_is_utf == contains(upper(encoding), "UTF")

get_terminal == get_environ(TERM, MISSING)

not_empty_string(value) ==
    value # None /\ is_str(value) /\ strip_not_empty(value.chars)

\* The dict of the listed variables' values, in order of first insertion:
\* a sequence of <<name, value>> pairs without repeated names.
RECURSIVE dict_of(_, _)
dict_of(var_names, seen) ==
    IF var_names = <<>> THEN <<>>
    ELSE IF Head(var_names) \in seen THEN dict_of(Tail(var_names), seen)
    ELSE <<Head(var_names)>> \o dict_of(Tail(var_names), seen \cup {Head(var_names)})

env_fallbacks(var_names) ==
    LET keys == dict_of(var_names, {})
    IN  [i \in 1..Len(keys) |-> [k |-> keys[i], v |-> get_environ(keys[i], MISSING)]]

----------------------------------------------------------------------------
(* The hint formatter *)

\* A formatter that looks for the secret words without lowering the name.
env_hint_case_sensitive(k, v, prefix) ==
    LET shown ==
            IF v = None \/ v = MISSING THEN "(not set)"
            ELSE IF contains(k, "password")
                    \/ (contains(k, "token") /\ Len(v.chars) # 0)
                 THEN "*** REDACTED ***"
                 ELSE Text(v.chars)
    IN  prefix \o Text(k) \o "=" \o shown

env_hint(k, v, prefix) ==
    LET shown ==
            IF v = None \/ v = MISSING THEN "(not set)"
            ELSE IF contains(lower(k), "password")
                    \/ (contains(lower(k), "token") /\ Len(v.chars) # 0)
                 THEN "*** REDACTED ***"
                 ELSE Text(v.chars)
    IN  prefix \o Text(k) \o "=" \o shown

----------------------------------------------------------------------------
(* The colour default *)

\* A decider that reads an unset variable as the empty string.
UseCliColor_empty_default ==
    [no_color |-> get_environ(NO_COLOR, Str(<<>>)),
     cli_color |-> get_environ(CLICOLOR, Str(<<>>)),
     cli_color_force |-> get_environ(CLICOLOR_FORCE, Str(<<>>)),
     terminal |-> get_environ(TERM, Str(<<>>)),
     is_tty |-> stdout_is_a_tty]

\* UseCliColor.__init__
UseCliColor ==
    [no_color |-> get_environ(NO_COLOR, MISSING),
     cli_color |-> get_environ(CLICOLOR, MISSING),
     cli_color_force |-> get_environ(CLICOLOR_FORCE, MISSING),
     terminal |-> get_terminal,
     is_tty |-> stdout_is_a_tty]

\* self.terminal in {"xterm-mono", "dumb"}
in_mono_terms(terminal) ==
    is_str(terminal) /\ Text(terminal.chars) \in {"xterm-mono", "dumb"}

\* A decider that lets CLICOLOR_FORCE win over NO_COLOR.
guess_if_color_is_default_force_first(self) ==
    IF truthy(self.cli_color_force) THEN TRUE
    ELSE IF truthy(self.no_color) THEN FALSE
    ELSE IF in_mono_terms(self.terminal) THEN FALSE
    ELSE IF truthy(self.cli_color) THEN self.is_tty
    ELSE self.is_tty

guess_if_color_is_default(self) ==
    IF truthy(self.no_color) THEN FALSE
    ELSE IF truthy(self.cli_color_force) THEN TRUE
    ELSE IF in_mono_terms(self.terminal) THEN FALSE
    ELSE IF truthy(self.cli_color) THEN self.is_tty
    ELSE self.is_tty

\* color_use_decider.terminal == {"xterm-mono", "dumb"}: a str, or the
\* sentinel, compared with a set, which Python never finds equal.
equals_mono_terms(terminal) == FALSE

\* One option of a parser: its flag, the destination it writes, the constant
\* it stores (store_true, store_false) and its default.
Option(flag, dest, const, default) ==
    [flag |-> flag, dest |-> dest, const |-> const, default |-> default]

\* The argument group add_color_arguments adds: its title, its description
\* line by line, and its options, which exclude each other.
add_color_arguments ==
    LET color_use_decider == UseCliColor
        no_color_hint == env_hint(NO_COLOR, color_use_decider.no_color, "$")
        cli_color_force_hint ==
            env_hint(CLICOLOR_FORCE, color_use_decider.cli_color_force, "$")
        cli_color_hint == env_hint(CLICOLOR, color_use_decider.cli_color, "$")
        default_use_color == guess_if_color_is_default(color_use_decider)
        is_tty_hint == IF color_use_decider.is_tty THEN "yes" ELSE "no"
        term_hint == env_hint(TERM, color_use_decider.terminal, "$")
        term_line ==
            IF equals_mono_terms(color_use_decider.terminal)
            THEN term_hint \o ": this TERM disables colors by default"
            ELSE IF not_empty_string(color_use_decider.terminal)
                 THEN term_hint \o ": this TERM probably allows colors"
                 ELSE term_hint \o ": cannot guess this terminal's color capabilities"
        default_color_hint ==
            IF default_use_color
            THEN "Colors currently defaulting to on"
            ELSE "Colors currently defaulting to off"
    IN  [title |-> "Enable colored highlighting? (" \o default_color_hint \o ")",
         help |->
            <<"Env: " \o no_color_hint \o ": Set to 1 to disable colors by default",
              "     " \o cli_color_force_hint \o ": Set to 1 to enable colors by default",
              "     " \o cli_color_hint
                  \o ": Set to 1 to enable colors if stdout is a tty ("
                  \o is_tty_hint \o ")",
              "     " \o term_line,
              "",
              "Force the color setting:">>,
         exclusive |-> TRUE,
         options |->
            <<Option("--colors", "colors", True,
                     IF default_use_color THEN True ELSE None),
              Option("--no-colors", "colors", False, None)>>]

----------------------------------------------------------------------------
(* Arguments that fall back to environment variables *)

\* The marks of the help text, as code points.
CheckMark == 10003
CrossMark == 10007
MiddleDot == 183
PlusSign == 43
MinusSign == 45

\* str.replace(old, new) for one-character old and new
replace(s, old, new) == [i \in 1..Len(s) |-> IF s[i] = old THEN new ELSE s[i]]

is_letter(c) ==
    \/ \E i \in DOMAIN UpperChars : UpperChars[i] = c
    \/ \E i \in DOMAIN LowerChars : LowerChars[i] = c

\* str.title(): a letter that follows no letter is raised, every other one
\* lowered.
title(s) ==
    [i \in 1..Len(s) |->
        IF i = 1 \/ ~is_letter(s[i - 1]) THEN upper_char(s[i]) ELSE lower_char(s[i])]

\* str.endswith(c) for one character
endswith(s, c) == Len(s) > 0 /\ s[Len(s)] = c

\* One line of help: what leads it, its mark (<<>> when it has none) and
\* its text.
Line(lead, mark, text) == [lead |-> lead, mark |-> mark, text |-> text]

\* The first entry of the dict whose value is not None (0 when there is none).
first_not_none(fallbacks) ==
    IF \E i \in DOMAIN fallbacks : fallbacks[i].v # None
    THEN CHOOSE i \in DOMAIN fallbacks :
            /\ fallbacks[i].v # None
            /\ \A j \in 1..(i - 1) : fallbacks[j].v = None
    ELSE 0

\* has_found_default as entry i is reached: False at first, and after each
\* entry whether that entry's value is not None.
has_found_default(fallbacks, i) == i > 1 /\ fallbacks[i - 1].v # None

guess_boolean(value) ==
    IF value = None \/ value = MISSING
    THEN FALSE
    ELSE Text(lower(value.chars)) \in {"true", "t", "y", "yes", "1"}

\* default or None
or_None(default) == IF truthy(default) THEN default ELSE None

add_argument(argument_help, name, var_names, fallback) ==
    LET dest == replace(name, "-", "_")
        fallbacks == env_fallbacks(var_names)
        first == first_not_none(fallbacks)
        default == IF first # 0 THEN fallbacks[first].v ELSE fallback
        true_mark == IF stdout_is_utf THEN CheckMark ELSE PlusSign
        dot_mark == IF stdout_is_utf THEN MiddleDot ELSE MinusSign
        mark(i) ==
            IF fallbacks[i].v # None /\ ~has_found_default(fallbacks, i)
            THEN true_mark
            ELSE dot_mark
        \* the hint of entry i, stripped: it begins with its mark
        hint(i) == env_hint(fallbacks[i].k, fallbacks[i].v, "$")
        environment_variable_helps ==
            IF Len(var_names) = 1
            THEN <<Line("", <<mark(1)>>, hint(1))>>
            ELSE [i \in 1..Len(fallbacks) |->
                    Line(IF i = 1 THEN "Env: " ELSE "     ", <<mark(i)>>, hint(i))]
        default_help ==
            IF fallback # None
            THEN <<Line("", <<>>, "default: " \o Text(fallback.chars))>>
            ELSE <<>>
    IN  [option |->
            [flag |-> "--" \o Text(name),
             dest |-> Text(dest),
             metavar |-> IF Len(var_names) = 1 THEN Str(var_names[1]) ELSE None,
             default |-> default],
         help |->
            <<Line("", <<>>, Text(argument_help))>>
                \o environment_variable_helps \o default_help]

build_boolean_options_hint(name, default, default_source) ==
    IF truthy(default)
    THEN "[--" \o Text(name) \o " (" \o default_source \o ") | --no-" \o Text(name) \o "]"
    ELSE IF default # None
         THEN "[--" \o Text(name) \o " | --no-" \o Text(name)
                  \o " (" \o default_source \o ")]"
         ELSE "[--" \o Text(name) \o " | --no-" \o Text(name) \o "]"

build_boolean_title(name, argument_help) ==
    IF not_empty_string(argument_help)
    THEN IF endswith(argument_help.chars, "?")
         THEN Text(argument_help.chars) \o " true/false"
         ELSE Text(argument_help.chars)
    ELSE Text(title(replace(replace(name, "-", " "), "_", " ")))

\* The second loop's rewriting of default_source: an entry whose name equals
\* it replaces it by that entry's hint.
RECURSIVE render_default_source(_, _, _)
render_default_source(fallbacks, i, default_source) ==
    IF i > Len(fallbacks)
    THEN default_source
    ELSE render_default_source(
            fallbacks, i + 1,
            IF Text(fallbacks[i].k) = default_source
            THEN env_hint(fallbacks[i].k, fallbacks[i].v, "set by $")
            ELSE default_source)

\* An on/off pair whose off flag stores True as well.
boolean_options_both_true(name, dest, default) ==
    <<Option("--" \o Text(name), Text(dest), True, or_None(default)),
      Option("--no-" \o Text(name), Text(dest), True, default)>>

\* The two options of the exclusive group: --name stores True, --no-name
\* stores False.
boolean_options(name, dest, default) ==
    <<Option("--" \o Text(name), Text(dest), True, or_None(default)),
      Option("--no-" \o Text(name), Text(dest), False, default)>>

add_boolean_argument(argument_help, name, var_names, fallback) ==
    LET dest == replace(name, "-", "_")
        fallbacks == env_fallbacks(var_names)
        first == first_not_none(fallbacks)
        default ==
            IF first # 0 THEN Bool(guess_boolean(fallbacks[first].v)) ELSE fallback
        default_source ==
            render_default_source(
                fallbacks, 1,
                IF first # 0 THEN Text(fallbacks[first].k) ELSE "default")
        true_mark == IF stdout_is_utf THEN CheckMark ELSE PlusSign
        false_mark == IF stdout_is_utf THEN CrossMark ELSE CrossMark
        dot_mark == IF stdout_is_utf THEN MiddleDot ELSE MinusSign
        mark(i) ==
            IF fallbacks[i].v # None /\ ~has_found_default(fallbacks, i)
            THEN IF truthy(default) THEN true_mark ELSE false_mark
            ELSE dot_mark
        names == build_boolean_options_hint(name, default, default_source)
    IN  [title |-> "  " \o names \o " " \o build_boolean_title(name, argument_help),
         help |->
            [i \in 1..Len(fallbacks) |->
                Line("  ", <<mark(i)>>,
                     env_hint(fallbacks[i].k, fallbacks[i].v, "$"))],
         exclusive |-> TRUE,
         options |-> boolean_options(name, dest, default),
         default |-> default,
         default_source |-> default_source,
         names |-> names]

----------------------------------------------------------------------------
(* Parsing a command line with the options of a group *)

\* The namespace before any argument is read: each destination holds the
\* default of the first option registered for it.
RECURSIVE set_defaults(_, _, _)
set_defaults(options, i, namespace) ==
    IF i > Len(options)
    THEN namespace
    ELSE set_defaults(
            options, i + 1,
            IF options[i].dest \in DOMAIN namespace
            THEN namespace
            ELSE [d \in DOMAIN namespace \cup {options[i].dest} |->
                    IF d = options[i].dest THEN options[i].default ELSE namespace[d]])

\* The flags of argv taken in order: a flag stores its option's constant; in
\* an exclusive group, a flag after another option's flag is an error.
RECURSIVE take_actions(_, _, _, _)
take_actions(group, argv, seen, namespace) ==
    IF argv = <<>>
    THEN [error |-> FALSE, namespace |-> namespace]
    ELSE LET i == CHOOSE j \in DOMAIN group.options :
                    group.options[j].flag = Head(argv)
         IN  IF group.exclusive /\ seen \ {i} # {}
             THEN [error |-> TRUE, namespace |-> << >>]
             ELSE take_actions(
                    group, Tail(argv), seen \cup {i},
                    [namespace EXCEPT
                        ![group.options[i].dest] = group.options[i].const])

parse_args(group, argv) ==
    take_actions(group, argv, {}, set_defaults(group.options, 1, << >>))

----------------------------------------------------------------------------
(* What a program that calls only one of the two modules leaves alone *)

\* Jmullan.GO and Jmullan.PIPE_OK as the class body sets them, nothing read,
\* written or opened, no handler installed, the process running.
\* main() has not been called.
NotCalled ==
    [pc |-> "idle", run |-> 0, method |-> "", filenames |-> <<>>, i |-> 0,
     started |-> <<>>, finished |-> <<>>, text |-> <<>>, lines |-> <<>>,
     line_calls |-> <<>>]

CmdAtImport ==
    /\ files = <<>>
    /\ stdin = [text |-> <<>>, closed |-> FALSE]
    /\ stdout = <<>>
    /\ writes = <<>>
    /\ web = <<>>
    /\ handle = None
    /\ response = None
    /\ GO = TRUE
    /\ PIPE_OK = TRUE
    /\ hooks = [SIGINT |-> "default_int_handler", SIGPIPE |-> "SIG_IGN",
                excepthook |-> "__excepthook__"]
    /\ stderr = [closed |-> FALSE, tracebacks |-> <<>>]
    /\ handled = <<>>
    /\ main_call = NotCalled
    /\ exit_status = <<>>

\* What the operations of cmd.py and requests_handle.py never ask for
AutoConfigUnused ==
    /\ environ = <<>>
    /\ isatty = FALSE
    /\ encoding = <<"u", "t", "f", "-", "8">>

----------------------------------------------------------------------------
(* Inputs: environments, encodings, values *)

\* The most variables an environment of the model sets.
MaxSet == 3

\* Every os.environ that sets at most MaxSet of `names`, to values of `values`.
Environments(names, values) ==
    UNION {[S -> values] : S \in {T \in SUBSET names : Cardinality(T) <= MaxSet}}

Encodings == {<<"u", "t", "f", "-", "8">>, <<"a", "s", "c", "i", "i">>}

ProbeNames == {FOOBAR, DB_Password, API_TOKEN}
ProbeValues == {<<>>, <<"1">>, <<"h", "u", "n", "t", "e", "r", "2">>}
ProbeDefaults == {MISSING, None, Str(<<>>), Str(<<"d", "f", "l", "t">>)}
HintValues == {MISSING, None} \cup {Str(s) : s \in ProbeValues}
HintPrefixes == {"", "$", "set by $"}

----------------------------------------------------------------------------
(* The environment probe and the hint formatter: one call on any input *)

InitEnv ==
    /\ environ \in Environments(ProbeNames, ProbeValues)
    /\ isatty \in BOOLEAN
    /\ encoding \in Encodings
    /\ op = "init"
    /\ args = <<>>
    /\ ret = None
    /\ CmdAtImport

CallGetEnviron ==
    \E key \in ProbeNames, default \in ProbeDefaults :
        /\ op = "init"
        /\ op' = "get_environ"
        /\ args' = [key |-> key, default |-> default]
        /\ ret' = get_environ(key, default)
        /\ UNCHANGED <<auto_config_vars, cmd_vars>>

CallEnvHint ==
    \E k \in ProbeNames, v \in HintValues, prefix \in HintPrefixes :
        /\ op = "init"
        /\ op' = "env_hint"
        /\ args' = [k |-> k, v |-> v, prefix |-> prefix]
        /\ ret' = env_hint(k, v, prefix)
        /\ UNCHANGED <<auto_config_vars, cmd_vars>>

NextEnv == CallGetEnviron \/ CallEnvHint

SpecEnv == InitEnv /\ [][NextEnv]_vars

----------------------------------------------------------------------------
(* Claims about the environment probe and the hint formatter *)

C2_NoneWhenUnset ==
    (op = "get_environ" /\ args.default = MISSING) =>
        IF args.key \in DOMAIN environ
        THEN ret = Str(environ[args.key])
        ELSE ret = None

\* C3 as stated: for a variable whose name contains "password" or "token" in
\* any letter case, the hint of every set value is
\* prefix + name + "=*** REDACTED ***".
C3_RedactsEverySetValue ==
    (/\ op = "env_hint"
     /\ contains(lower(args.k), "password") \/ contains(lower(args.k), "token")
     /\ is_str(args.v))
        => ret = args.prefix \o Text(args.k) \o "=*** REDACTED ***"

\* C3 as amended: the hint is prefix + name + "=*** REDACTED ***" for every
\* set value of a variable whose name contains "password", and for every
\* set value that is not empty of a variable whose name contains "token";
\* the empty value of a variable whose name contains only "token" is shown
\* as it is (prefix + name + "=").
C3_Redacts ==
    (op = "env_hint" /\ is_str(args.v)) =>
        /\ contains(lower(args.k), "password")
               => ret = args.prefix \o Text(args.k) \o "=*** REDACTED ***"
        /\ (contains(lower(args.k), "token") /\ args.v.chars # <<>>)
               => ret = args.prefix \o Text(args.k) \o "=*** REDACTED ***"
        /\ (/\ contains(lower(args.k), "token")
            /\ ~contains(lower(args.k), "password")
            /\ args.v.chars = <<>>)
               => ret = args.prefix \o Text(args.k) \o "="

\* The value of a variable whose name holds "Password" in mixed case has been
\* redacted.
C3_Witness ==
    /\ op = "env_hint"
    /\ args.k = DB_Password
    /\ is_str(args.v) /\ args.v.chars # <<>>
    /\ ret = args.prefix \o "DB_Password=*** REDACTED ***"

----------------------------------------------------------------------------
(* The colour default, decided in any environment *)

ColorNames == {NO_COLOR, CLICOLOR_FORCE, CLICOLOR, TERM}
ColorValues ==
    {<<>>, <<"1">>, <<"d", "u", "m", "b">>,
     <<"x", "t", "e", "r", "m", "-", "m", "o", "n", "o">>}

InitColor ==
    /\ environ \in Environments(ColorNames, ColorValues)
    /\ isatty \in BOOLEAN
    /\ encoding \in Encodings
    /\ op = "init"
    /\ args = <<>>
    /\ ret = None
    /\ CmdAtImport

CallGuessIfColorIsDefault ==
    /\ op = "init"
    /\ op' = "guess_if_color_is_default"
    /\ args' = <<>>
    /\ ret' = Bool(guess_if_color_is_default(UseCliColor))
    /\ UNCHANGED <<auto_config_vars, cmd_vars>>

CallAddColorArguments ==
    /\ op = "init"
    /\ op' = "add_color_arguments"
    /\ args' = <<>>
    /\ ret' = add_color_arguments
    /\ UNCHANGED <<auto_config_vars, cmd_vars>>

NextColor == CallGuessIfColorIsDefault \/ CallAddColorArguments

SpecColor == InitColor /\ [][NextColor]_vars

\* The variable is set and its value is not the empty string.
NonEmpty(name) == name \in DOMAIN environ /\ environ[name] # <<>>

\* C5: the colour default is decided by strict priority: a non-empty
\* NO_COLOR gives off; otherwise a non-empty CLICOLOR_FORCE gives on;
\* otherwise a TERM of "xterm-mono" or "dumb" gives off; otherwise it is
\* whether stdout is a tty.  So CLICOLOR enables colours only on a tty, and a
\* variable that is unset or empty decides nothing.
C5_ColorPriority ==
    op = "guess_if_color_is_default" =>
        /\ ret =
            IF NonEmpty(NO_COLOR) THEN False
            ELSE IF NonEmpty(CLICOLOR_FORCE) THEN True
            ELSE IF TERM \in DOMAIN environ
                    /\ Text(environ[TERM]) \in {"xterm-mono", "dumb"} THEN False
            ELSE Bool(isatty)
        /\ (NonEmpty(CLICOLOR) /\ ~NonEmpty(CLICOLOR_FORCE) /\ ~isatty)
               => ret = False

\* CLICOLOR_FORCE and NO_COLOR are both set and not empty, and NO_COLOR has
\* won on a tty.
C5_Witness ==
    /\ op = "guess_if_color_is_default"
    /\ NonEmpty(NO_COLOR) /\ NonEmpty(CLICOLOR_FORCE)
    /\ isatty
    /\ ret = False

\* C6: with none of NO_COLOR, CLICOLOR_FORCE, CLICOLOR and TERM set, the
\* colours group says "Colors currently defaulting to on" and "(yes)" exactly
\* when stdout is a tty, "Colors currently defaulting to off" and "(no)"
\* exactly when it is not, and shows each of the four variables as
\* "(not set)".
C6_ColorsGroupUnset ==
    (op = "add_color_arguments" /\ DOMAIN environ \cap ColorNames = {}) =>
        /\ ret.title =
            IF isatty
            THEN "Enable colored highlighting? (Colors currently defaulting to on)"
            ELSE "Enable colored highlighting? (Colors currently defaulting to off)"
        /\ ret.help[1] = "Env: $NO_COLOR=(not set): Set to 1 to disable colors by default"
        /\ ret.help[2] = "     $CLICOLOR_FORCE=(not set): Set to 1 to enable colors by default"
        /\ ret.help[3] =
            IF isatty
            THEN "     $CLICOLOR=(not set): Set to 1 to enable colors if stdout is a tty (yes)"
            ELSE "     $CLICOLOR=(not set): Set to 1 to enable colors if stdout is a tty (no)"
        /\ ret.help[4] = "     $TERM=(not set): cannot guess this terminal's color capabilities"

\* The colours group has been built on a tty with none of the four variables
\* set.
C6_Witness ==
    /\ op = "add_color_arguments"
    /\ DOMAIN environ \cap ColorNames = {}
    /\ isatty
    /\ ret.title = "Enable colored highlighting? (Colors currently defaulting to on)"

----------------------------------------------------------------------------
(* Arguments built in any environment, and command lines parsed with them *)

\* The longest list of variable names an argument is given.
MaxVars == 2

\* The longest command line parsed.
MaxArgv == 2

\* The sequences over S of length at most n
SeqsUpTo(S, n) == UNION {[1..m -> S] : m \in 0..n}

ArgNames == {<<"f", "o", "o", "-", "b", "a", "r">>}
ArgVarNames == {FOOBAR, FOO_BAR, API_TOKEN}
ArgValues == {<<>>, <<"Y", "e", "s">>, <<"f", "a", "l", "s", "e">>}
ArgVarLists == SeqsUpTo(ArgVarNames, MaxVars)
ArgHelps == {<<"D", "o", " ", "a", " ", "t", "h", "i", "n", "g">>, <<"G", "o", "?">>}
ArgFallbacks == {None, Str(<<"d", "f", "l", "t">>)}
BooleanHelps == {None} \cup {Str(h) : h \in ArgHelps}
BooleanFallbacks == {True, False, None}

\* The argument helpers do not ask whether stdout is a tty.
InitArgs ==
    /\ environ \in Environments(ArgVarNames, ArgValues)
    /\ isatty = FALSE
    /\ encoding \in Encodings
    /\ op = "init"
    /\ args = <<>>
    /\ ret = None
    /\ CmdAtImport

CallAddArgument ==
    \E argument_help \in ArgHelps, name \in ArgNames,
       var_names \in ArgVarLists, fallback \in ArgFallbacks :
        /\ op = "init"
        /\ op' = "add_argument"
        /\ args' = [argument_help |-> argument_help, name |-> name,
                    var_names |-> var_names, fallback |-> fallback]
        /\ ret' = add_argument(argument_help, name, var_names, fallback)
        /\ UNCHANGED <<auto_config_vars, cmd_vars>>

CallAddBooleanArgument ==
    \E argument_help \in BooleanHelps, name \in ArgNames,
       var_names \in ArgVarLists, fallback \in BooleanFallbacks :
        /\ op = "init"
        /\ op' = "add_boolean_argument"
        /\ args' = [argument_help |-> argument_help, name |-> name,
                    var_names |-> var_names, fallback |-> fallback]
        /\ ret' = add_boolean_argument(argument_help, name, var_names, fallback)
        /\ UNCHANGED <<auto_config_vars, cmd_vars>>

\* parse_args on a command line of the group's own flags
CallParseArgs ==
    /\ op = "add_boolean_argument"
    /\ \E argv \in SeqsUpTo({ret.options[i].flag : i \in DOMAIN ret.options}, MaxArgv) :
        /\ op' = "parse_args"
        /\ args' = [name |-> args.name, argv |-> argv]
        /\ ret' = [options |-> ret.options, default |-> ret.default,
                   parsed |-> parse_args(ret, argv)]
    /\ UNCHANGED <<auto_config_vars, cmd_vars>>

NextArgs == CallAddArgument \/ CallAddBooleanArgument \/ CallParseArgs

SpecArgs == InitArgs /\ [][NextArgs]_vars

----------------------------------------------------------------------------
(* Claims about the arguments *)

\* The marks of every line of help that carries one
Marks(help) == UNION {{help[i].mark[j] : j \in DOMAIN help[i].mark} : i \in DOMAIN help}

\* The first variable of var_names, in the listed order, that is set in the
\* environment (0 when none is).
FirstSet(var_names) ==
    IF \E i \in DOMAIN var_names : var_names[i] \in DOMAIN environ
    THEN CHOOSE i \in DOMAIN var_names :
            /\ var_names[i] \in DOMAIN environ
            /\ \A j \in 1..(i - 1) : var_names[j] \notin DOMAIN environ
    ELSE 0

\* C4 as stated: the marks of the help text of add_argument and
\* add_boolean_argument are the check mark, the cross and the middle dot when
\* the name of stdout's encoding contains "UTF", and otherwise every mark is
\* the ASCII plus or minus.
C4_MarksFollowEncoding ==
    op \in {"add_argument", "add_boolean_argument"} =>
        IF contains(upper(encoding), "UTF")
        THEN Marks(ret.help) \subseteq {CheckMark, CrossMark, MiddleDot}
        ELSE Marks(ret.help) \subseteq {PlusSign, MinusSign}

\* C7 as stated: the default of add_boolean_argument is guess_boolean of the
\* value of the first listed variable that is set in the environment (true
\* exactly for "true", "t", "y", "yes", "1" in any letter case); when none
\* of the listed variables is set, it is the caller's fallback and its
\* source is "default".
C7_DefaultFromFirstSet ==
    op = "add_boolean_argument" =>
        LET first == FirstSet(args.var_names)
        IN  IF first # 0
            THEN ret.default =
                    Bool(Text(lower(environ[args.var_names[first]]))
                            \in {"true", "t", "y", "yes", "1"})
            ELSE /\ ret.default = args.fallback
                 /\ ret.default_source = "default"

\* C8 as stated: the options hint annotates the on side with the source when
\* the default is true, the off side when it is false and neither when it is
\* None; the source is "default" when the fallback was used and
\* "set by $VAR=value" when the variable VAR decided the default.
C8_OptionsHintSource ==
    op = "add_boolean_argument" =>
        LET first == FirstSet(args.var_names)
            VAR == args.var_names[first]
            source ==
                IF first = 0
                THEN "default"
                ELSE env_hint(VAR, Str(environ[VAR]), "set by $")
            on == "--" \o Text(args.name)
            off == "--no-" \o Text(args.name)
        IN  ret.names =
                IF ret.default = True
                THEN "[" \o on \o " (" \o source \o ") | " \o off \o "]"
                ELSE IF ret.default = False
                     THEN "[" \o on \o " | " \o off \o " (" \o source \o ")]"
                     ELSE "[" \o on \o " | " \o off \o "]"

\* C9 as stated: of the environment-variable lines of a boolean argument's
\* help, only the line of the variable that decided the default carries a
\* true or false mark (the true mark if the default is true, the cross if it
\* is false); the line of every other listed variable, set or unset, carries
\* the dot mark.
C9_OnlyDecidingLineMarked ==
    op = "add_boolean_argument" =>
        LET first == FirstSet(args.var_names)
            keys == dict_of(args.var_names, {})
        IN  \A i \in DOMAIN ret.help :
                IF first # 0 /\ keys[i] = args.var_names[first]
                THEN ret.help[i].mark \in
                        (IF truthy(ret.default)
                         THEN {<<CheckMark>>, <<PlusSign>>}
                         ELSE {<<CrossMark>>})
                ELSE ret.help[i].mark \in {<<MiddleDot>>, <<MinusSign>>}

\* C10: --name and --no-name exclude each other and write one destination,
\* the name with "-" replaced by "_": a command line with only --name gives
\* True, one with only --no-name gives False, and one with both is rejected,
\* in every environment and with every fallback.
C10_ExclusiveOnOff ==
    op = "parse_args" =>
        LET on == "--" \o Text(args.name)
            off == "--no-" \o Text(args.name)
            flags == {args.argv[i] : i \in DOMAIN args.argv}
        IN  /\ args.name = <<"f", "o", "o", "-", "b", "a", "r">>
                => \A i \in DOMAIN ret.options : ret.options[i].dest = "foo_bar"
            /\ flags = {on}
                => /\ ~ret.parsed.error
                   /\ ret.parsed.namespace = [d \in {"foo_bar"} |-> True]
            /\ flags = {off}
                => /\ ~ret.parsed.error
                   /\ ret.parsed.namespace = [d \in {"foo_bar"} |-> False]
            /\ flags = {on, off} => ret.parsed.error

\* With a default of True (a listed variable is "Yes"), --no-foo-bar alone
\* has given False.
C10_Witness ==
    /\ op = "parse_args"
    /\ args.argv = <<"--no-foo-bar">>
    /\ ret.default = True
    /\ ~ret.parsed.error
    /\ ret.parsed.namespace["foo_bar"] = False

----------------------------------------------------------------------------
(* The help formatter *)

\* str.splitlines() of a text whose only line boundary is "\n"
RECURSIVE splitlines(_)
splitlines(s) ==
    IF s = <<>> THEN <<>>
    ELSE IF \E i \in 1..Len(s) : s[i] = "\n"
         THEN LET i == CHOOSE i \in 1..Len(s) :
                        /\ s[i] = "\n"
                        /\ \A j \in 1..(i - 1) : s[j] # "\n"
              IN  <<SubSeq(s, 1, i - 1)>> \o splitlines(SubSeq(s, i + 1, Len(s)))
         ELSE <<s>>

\* str.rstrip(chars)
RECURSIVE rstrip(_, _)
rstrip(s, chars) ==
    IF s # <<>> /\ s[Len(s)] \in chars
    THEN rstrip(SubSeq(s, 1, Len(s) - 1), chars)
    ELSE s

\* sep.join(lines)
RECURSIVE join(_, _)
join(sep, lines) ==
    IF lines = <<>> THEN <<>>
    ELSE IF Len(lines) = 1 THEN lines[1]
    ELSE lines[1] \o sep \o join(sep, Tail(lines))

\* s.startswith(prefix)
startswith(s, prefix) ==
    Len(s) >= Len(prefix) /\ SubSeq(s, 1, Len(prefix)) = prefix

\* s.replace(old, new): the occurrences of old are found from the left, each
\* search starting behind the occurrence replaced last.
RECURSIVE str_replace(_, _, _)
str_replace(s, old, new) ==
    IF Len(s) < Len(old) THEN s
    ELSE IF startswith(s, old)
         THEN new \o str_replace(SubSeq(s, Len(old) + 1, Len(s)), old, new)
         ELSE <<Head(s)>> \o str_replace(Tail(s), old, new)

BlankThenOption == <<"\n", "\n", " ", " ", "-", "-">>
ThenOption == <<"\n", " ", " ", "-", "-">>

\* AHelpFormatter.format_help, applied to the text of argparse's formatter
format_help(super_format_help) ==
    LET lines == splitlines(super_format_help)
        stripped == [i \in 1..Len(lines) |-> rstrip(lines[i], Whitespace)]
        help_text == rstrip(join(<<"\n">>, stripped), {"\n"})
    IN  str_replace(help_text, BlankThenOption, ThenOption) \o <<"\n">>

----------------------------------------------------------------------------
(* The help formatter on the texts argparse can hand it *)

\* The most lines of a help text.
MaxLines == 4

\* Lines of a help text: a blank one, one of spaces only (a description line
\* of a raw-text formatter, indented), words with and without a space behind
\* them, and an option.
HelpLines ==
    {<<>>, <<" ", " ">>, <<"a">>, <<"a", " ">>, <<" ", " ", "-", "-", "x">>}

\* What argparse's format_help returns: a text that starts with words (the
\* usage), in which three or more newlines have been joined into two, and
\* which ends with one newline.
HelpTexts ==
    {join(<<"\n">>, lines) \o <<"\n">> :
        lines \in {l \in SeqsUpTo(HelpLines, MaxLines) :
                    /\ l # <<>>
                    /\ rstrip(l[1], Whitespace) # <<>>
                    /\ l[Len(l)] # <<>>
                    /\ \A i \in 1..(Len(l) - 1) : ~(l[i] = <<>> /\ l[i + 1] = <<>>)}}

InitHelp ==
    /\ AutoConfigUnused
    /\ op = "init"
    /\ args \in HelpTexts
    /\ ret = <<>>
    /\ CmdAtImport

CallFormatHelp ==
    /\ op = "init"
    /\ op' = "format_help"
    /\ ret' = format_help(args)
    /\ UNCHANGED <<auto_config_vars, args, cmd_vars>>

NextHelp == CallFormatHelp

SpecHelp == InitHelp /\ [][NextHelp]_vars

\* C11 as stated: in the text format_help returns no line ends with
\* whitespace, the text ends with exactly one newline, and no blank line
\* stands directly before a line that starts with two spaces and "--".
C11_HelpTextTidy ==
    op = "format_help" =>
        LET lines == splitlines(ret)
        IN  /\ \A i \in DOMAIN lines :
                lines[i] = <<>> \/ lines[i][Len(lines[i])] \notin Whitespace
            /\ ret # <<>> /\ ret[Len(ret)] = "\n"
            /\ Len(ret) > 1 => ret[Len(ret) - 1] # "\n"
            /\ \A i \in 1..(Len(lines) - 1) :
                ~(lines[i] = <<>> /\ startswith(lines[i + 1], <<" ", " ", "-", "-">>))

----------------------------------------------------------------------------
(* Operations with effects: each takes the state it finds and gives the state
   it leaves, with what it returned or raised in the field ret *)

World ==
    [files |-> files, stdin |-> stdin, stdout |-> stdout, writes |-> writes,
     handle |-> handle, response |-> response, ret |-> None]

Becomes(w) ==
    /\ files' = w.files
    /\ stdin' = w.stdin
    /\ stdout' = w.stdout
    /\ writes' = w.writes
    /\ handle' = w.handle
    /\ response' = w.response
    /\ ret' = w.ret

\* raise e
Raise(e) == [tag |-> "raise", chars |-> <<e>>]

raised(w) == w.ret.tag = "raise"

Int(n) == [tag |-> "int", chars |-> <<ToString(n)>>]

List(l) == [tag |-> "list", chars |-> l]

\* bool(v) of a list or None
truthy_list(v) == v.tag = "list" /\ v.chars # <<>>

----------------------------------------------------------------------------
(* RequestsHandle *)

\* requests.get(url, stream=True): the answer, of which nothing is read or
\* closed yet.  close_errors is how many calls of Response.close() raise
\* before one succeeds, read_error whether reading the body raises.
requests_get(url) ==
    [text |-> web[url].text, pos |-> 0, closes |-> 0,
     close_errors |-> web[url].close_errors, read_error |-> web[url].read_error]

\* RequestsHandle.__init__
RequestsHandle(w, url) ==
    IF url \notin DOMAIN web
    THEN [w EXCEPT !.ret = Raise("ConnectionError")]
    ELSE [w EXCEPT !.handle = [url |-> url, response |-> "response", _closed |-> FALSE],
                   !.response = requests_get(url),
                   !.ret = None]

\* RequestsHandle.close: an exception of Response.close() is logged, and the
\* handle keeps its response.
close(w) ==
    IF w.handle.response = "None"
    THEN [w EXCEPT !.handle._closed = TRUE, !.ret = None]
    ELSE IF w.response.close_errors > 0
         THEN [w EXCEPT !.handle._closed = TRUE,
                        !.response.closes = @ + 1,
                        !.response.close_errors = @ - 1,
                        !.ret = None]
         ELSE [w EXCEPT !.handle._closed = TRUE,
                        !.response.closes = @ + 1,
                        !.handle.response = "None",
                        !.ret = None]

\* RequestsHandle.__exit__
exit(w) == close(w)

\* RequestsHandle.getvalue: Response.text reads the whole body
getvalue(w) ==
    IF w.handle.response = "None"
    THEN [w EXCEPT !.ret = None]
    ELSE IF w.response.read_error
         THEN [w EXCEPT !.ret = Raise("ConnectionError")]
         ELSE [w EXCEPT !.response.pos = Len(w.response.text),
                        !.ret = Str(w.response.text)]

\* RequestsHandle.read, with or without a size: the whole body either way,
\* and the handle closed in the finally clause.
read(w, size) ==
    IF w.handle.response = "None"
    THEN [w EXCEPT !.ret = None]
    ELSE LET got == getvalue(w)
         IN  [close(got) EXCEPT !.ret = got.ret]

\* RequestsHandle.readable
readable(w) == w.handle.response # "None" /\ ~w.handle._closed

\* list(handle.readline()): readline is a generator of the lines of the body,
\* which closes the handle when it is exhausted.
readline(w) ==
    IF w.handle.response = "None"
    THEN [w EXCEPT !.ret = List(<<>>)]
    ELSE IF w.response.read_error
         THEN [w EXCEPT !.ret = Raise("ConnectionError")]
         ELSE [close([w EXCEPT !.response.pos = Len(w.response.text)])
                  EXCEPT !.ret = List(splitlines(w.response.text))]

\* RequestsHandle.tell
tell(w) ==
    IF w.handle.response = "None"
    THEN [w EXCEPT !.ret = None]
    ELSE IF readable(w)
         THEN [w EXCEPT !.ret = Int(w.response.pos)]
         ELSE [w EXCEPT !.ret = None]

\* RequestsHandle.seek, truncate and write
not_implemented(w) == [w EXCEPT !.ret = Raise("NotImplementedError")]

----------------------------------------------------------------------------
(* Files, stdin and stdout *)

Dash == <<"-">>
Https == <<"h", "t", "t", "p", "s", ":", "/", "/">>
Http == <<"h", "t", "t", "p", ":", "/", "/">>

\* filename.startswith(("https://", "http://"))
is_url(filename) == startswith(filename, Https) \/ startswith(filename, Http)

\* The directory of a path exists: the files of the model are those of the
\* working directory, which has no directory "http:".
parent_exists(filename) == \A i \in DOMAIN filename : filename[i] # "/"

\* with open_file_or_stdin(filename) as handle: return handle.read()
\* sys.stdin is closed when its with block is left; a closed file cannot be
\* entered again.
read_file_or_stdin(w, filename) ==
    IF filename = Dash
    THEN IF w.stdin.closed
         THEN [w EXCEPT !.ret = Raise("ValueError")]
         ELSE [w EXCEPT !.stdin = [text |-> <<>>, closed |-> TRUE],
                        !.ret = Str(w.stdin.text)]
    ELSE IF is_url(filename)
         THEN LET opened == RequestsHandle(w, filename)
                  got == read(opened, None)
              IN  IF raised(opened) THEN opened
                  ELSE [exit(got) EXCEPT !.ret = got.ret]
         ELSE IF filename \in DOMAIN w.files
              THEN [w EXCEPT !.ret = Str(w.files[filename])]
              ELSE [w EXCEPT !.ret = Raise("FileNotFoundError")]

\* f with x mapped to v, x in its domain or not
Put(f, x, v) == [y \in DOMAIN f \cup {x} |-> IF y = x THEN v ELSE f[y]]

write_to_file_or_stdout(w, filename, contents) ==
    IF filename = Dash
    THEN [w EXCEPT !.stdout = @ \o contents, !.ret = None]
    ELSE IF parent_exists(filename)
         THEN [w EXCEPT !.files = Put(w.files, filename, contents),
                        !.writes = Append(@, filename),
                        !.ret = None]
         ELSE [w EXCEPT !.ret = Raise("FileNotFoundError")]

\* A get_filenames that reads stdin behind the files given.
get_filenames_and_stdin(namespace) ==
    LET filenames == IF truthy_list(namespace.filenames) THEN namespace.filenames.chars ELSE <<>>
    IN  Append(filenames, Dash)

\* get_filenames(args): the namespace's filenames is a list or None
get_filenames(namespace) ==
    LET filenames == IF truthy_list(namespace.filenames) THEN namespace.filenames.chars ELSE <<>>
    IN  IF filenames = <<>> THEN Append(filenames, Dash) ELSE filenames

\* The changers a caller passes: functions from contents to contents
Changers == {"keep", "upper", "clear", "mark"}

changer(name, contents) ==
    CASE name = "keep" -> contents
      [] name = "upper" -> upper(contents)
      [] name = "clear" -> <<>>
      [] name = "mark" -> contents \o <<"!">>

\* An update_in_place that writes whatever the changer returns.
update_in_place_always(w, filename, c) ==
    LET loaded == read_file_or_stdin(w, filename)
    IN  IF raised(loaded) THEN loaded
        ELSE write_to_file_or_stdout(loaded, filename, changer(c, loaded.ret.chars))

update_in_place(w, filename, c) ==
    LET loaded == read_file_or_stdin(w, filename)
        contents == loaded.ret.chars
        new_contents == changer(c, contents)
        changed == new_contents # contents
    IN  IF raised(loaded) THEN loaded
        ELSE IF changed
             THEN write_to_file_or_stdout(loaded, filename, new_contents)
             ELSE [loaded EXCEPT !.ret = None]

update_and_print(w, filename, c) ==
    LET loaded == read_file_or_stdin(w, filename)
        contents == loaded.ret.chars
        new_contents == changer(c, contents)
        changed == new_contents # contents
    IN  IF raised(loaded) THEN loaded
        ELSE IF changed
             THEN [loaded EXCEPT !.stdout = @ \o new_contents, !.ret = None]
             ELSE [loaded EXCEPT !.ret = None]


\* The lines a text file gives when it is iterated: each with its newline
RECURSIVE lines_of(_)
lines_of(text) ==
    IF text = <<>> THEN <<>>
    ELSE IF \E i \in 1..Len(text) : text[i] = "\n"
         THEN LET i == CHOOSE i \in 1..Len(text) :
                        /\ text[i] = "\n"
                        /\ \A j \in 1..(i - 1) : text[j] # "\n"
              IN  <<SubSeq(text, 1, i)>> \o lines_of(SubSeq(text, i + 1, Len(text)))
         ELSE <<text>>

\* The process_line methods a subclass defines: (should_print, processed)
LineProcessors == {"echo", "drop", "upper", "starts_a"}

process_line(name, line) ==
    CASE name = "echo" -> [should_print |-> TRUE, processed |-> line]
      [] name = "drop" -> [should_print |-> FALSE, processed |-> line]
      [] name = "upper" -> [should_print |-> TRUE, processed |-> upper(line)]
      [] name = "starts_a" -> [should_print |-> Head(line) \in {"a", "A"},
                               processed |-> upper(line)]

\* What the loop of process_file_handle writes for the lines of a text file:
\* nothing once GO is false.
RECURSIVE printed(_, _)
printed(name, lines) ==
    IF lines = <<>> \/ ~GO THEN <<>>
    ELSE LET result == process_line(name, Head(lines))
         IN  (IF result.should_print THEN result.processed ELSE <<>>)
                \o printed(name, Tail(lines))

\* TextIoProcessor.process_filename with TextIoLineProcessor.process_file_handle:
\* the with block closes the handle, whether the loop raised or not.  A
\* RequestsHandle has no __iter__, so the for statement raises TypeError.
process_lines(w, filename, name) ==
    IF filename = Dash
    THEN IF w.stdin.closed
         THEN [w EXCEPT !.ret = Raise("ValueError")]
         ELSE [w EXCEPT !.stdout = @ \o printed(name, lines_of(w.stdin.text)),
                        !.stdin = [text |-> <<>>, closed |-> TRUE],
                        !.ret = None]
    ELSE IF is_url(filename)
         THEN LET opened == RequestsHandle(w, filename)
              IN  IF raised(opened) THEN opened
                  ELSE [exit(opened) EXCEPT !.ret = Raise("TypeError")]
         ELSE IF filename \in DOMAIN w.files
              THEN [w EXCEPT !.stdout = @ \o printed(name, lines_of(w.files[filename])),
                             !.ret = None]
              ELSE [w EXCEPT !.ret = Raise("FileNotFoundError")]

Processors == {"InPlaceFileProcessor", "PrintingFileProcessor", "TextIoLineProcessor"}

\* process_filename of each processor; method is the process_contents or the
\* process_line of the subclass.
process_filename(w, processor, filename, method) ==
    CASE processor = "InPlaceFileProcessor" -> update_in_place(w, filename, method)
      [] processor = "PrintingFileProcessor" -> update_and_print(w, filename, method)
      [] processor = "TextIoLineProcessor" -> process_lines(w, filename, method)

----------------------------------------------------------------------------
(* The file helpers and the processors, one call on any files *)

\* The longest list of filenames on a command line.
MaxFilenames == 2

Paths == {<<"f">>, <<"h", "t", "t", "p">>}
Urls == {Http \o <<"h">>, Https \o <<"h">>}
FileNames == {Dash} \cup Paths \cup Urls
Contents == {<<>>, <<"a", "\n">>, <<"A", "\n", "b">>}

\* What the servers of the model answer: a body that is read and closed
\* without an error.
Answers == {[text |-> c, close_errors |-> 0, read_error |-> FALSE] : c \in Contents}

InitFiles ==
    /\ AutoConfigUnused
    /\ op = "init"
    /\ args = <<>>
    /\ ret = None
    /\ files \in UNION {[S -> Contents] : S \in SUBSET Paths}
    /\ stdin \in {[text |-> c, closed |-> FALSE] : c \in Contents}
    /\ stdout = <<>>
    /\ writes = <<>>
    /\ web \in {<<>>} \cup {[url \in Urls |-> answer] : answer \in Answers}
    /\ handle = None
    /\ response = None
    /\ GO \in BOOLEAN
    /\ PIPE_OK = TRUE
    /\ hooks = [SIGINT |-> "default_int_handler", SIGPIPE |-> "SIG_IGN",
                excepthook |-> "__excepthook__"]
    /\ stderr = [closed |-> FALSE, tracebacks |-> <<>>]
    /\ handled = <<>>
    /\ main_call = NotCalled
    /\ exit_status = <<>>

files_frame ==
    <<auto_config_vars, web, GO, PIPE_OK, hooks, stderr, handled, main_call, exit_status>>

CallUpdateInPlace ==
    \E filename \in FileNames, c \in Changers :
        /\ op = "init"
        /\ op' = "update_in_place"
        /\ args' = [filename |-> filename, changer |-> c]
        /\ Becomes(update_in_place(World, filename, c))
        /\ UNCHANGED files_frame

CallUpdateAndPrint ==
    \E filename \in FileNames, c \in Changers :
        /\ op = "init"
        /\ op' = "update_and_print"
        /\ args' = [filename |-> filename, changer |-> c]
        /\ Becomes(update_and_print(World, filename, c))
        /\ UNCHANGED files_frame

CallGetFilenames ==
    \E filenames \in {None} \cup {List(l) : l \in SeqsUpTo(FileNames, MaxFilenames)} :
        /\ op = "init"
        /\ op' = "get_filenames"
        /\ args' = [filenames |-> filenames]
        /\ ret' = List(get_filenames([filenames |-> filenames]))
        /\ UNCHANGED <<files, stdin, stdout, writes, handle, response, files_frame>>

CallProcessFilename ==
    \E processor \in Processors, filename \in FileNames :
        \E method \in IF processor = "TextIoLineProcessor" THEN LineProcessors ELSE Changers :
            /\ op = "init"
            /\ op' = "process_filename"
            /\ args' = [processor |-> processor, filename |-> filename, method |-> method]
            /\ Becomes(process_filename(World, processor, filename, method))
            /\ UNCHANGED files_frame

NextFiles ==
    CallUpdateInPlace \/ CallUpdateAndPrint \/ CallGetFilenames \/ CallProcessFilename

SpecFiles == InitFiles /\ [][NextFiles]_vars

----------------------------------------------------------------------------
(* Claims about the file helpers *)

\* C12: update_in_place of a file that exists writes changer(contents) into
\* that file and into no other when it differs from the contents read, and
\* does not open the file for writing and leaves every file as it is when it
\* is equal; neither case writes to stdout.
C12_UpdateInPlace ==
    [][(op' = "update_in_place" /\ args'.filename \in DOMAIN files) =>
        LET filename == args'.filename
            contents == files[filename]
            new_contents == changer(args'.changer, contents)
        IN  /\ stdout' = stdout
            /\ IF new_contents = contents
               THEN files' = files /\ writes' = writes
               ELSE /\ files' = Put(files, filename, new_contents)
                    /\ writes' = Append(writes, filename)]_vars

\* A file "A\nb" has been rewritten in upper case.
C12_Witness ==
    /\ op = "update_in_place"
    /\ args = [filename |-> <<"f">>, changer |-> "upper"]
    /\ writes = <<<<"f">>>>
    /\ files[<<"f">>] = <<"A", "\n", "B">>


\* C13 as stated: update_and_print of an input that can be read writes
\* changer(contents) to stdout, and writes no file.
C13_PrintsTransformed ==
    [][(op' = "update_and_print" /\ ret'.tag # "raise") =>
        LET filename == args'.filename
            contents ==
                IF filename = Dash THEN stdin.text
                ELSE IF is_url(filename) THEN web[filename].text
                ELSE files[filename]
        IN  /\ stdout' = stdout \o changer(args'.changer, contents)
            /\ files' = files
            /\ writes' = writes]_vars

\* C14: get_filenames returns the list of the single name "-" when no
\* filenames were given (an empty list or None), and otherwise the filenames
\* given, in their order; the list it returns is never empty.
C14_FilenamesOrStdin ==
    op = "get_filenames" =>
        /\ ret.chars # <<>>
        /\ IF args.filenames.tag = "None" \/ args.filenames.chars = <<>>
           THEN ret.chars = <<Dash>>
           ELSE ret.chars = args.filenames.chars

\* Two filenames, a URL before a file, have been returned as given.
C14_Witness ==
    /\ op = "get_filenames"
    /\ args.filenames = List(<<Http \o <<"h">>, <<"f">>>>)
    /\ ret = List(<<Http \o <<"h">>, <<"f">>>>)

\* C15 as stated: every processor consumes the handle of every filename that
\* open_file_or_stdin opens (stdin, a file that exists, a URL that answers):
\* reading it raises nothing.
C15_EveryHandleConsumed ==
    [][(/\ op' = "process_filename"
        /\ \/ args'.filename = Dash /\ ~stdin.closed
           \/ args'.filename \in DOMAIN files
           \/ args'.filename \in DOMAIN web)
       => ret' # Raise("TypeError")]_vars

----------------------------------------------------------------------------
(* A RequestsHandle, any operations on it in any order *)

\* The most calls of Response.close() that raise before one succeeds.
MaxCloseErrors == 2

HandleUrl == Http \o <<"h">>

\* What the server may answer: a body, read with or without an error, behind
\* a connection that closes at once or after some failures.
HandleAnswers ==
    {[text |-> c, close_errors |-> n, read_error |-> e] :
        c \in {<<>>, <<"a", "\n", "b">>}, n \in 0..MaxCloseErrors, e \in BOOLEAN}

\* handle = RequestsHandle(url)
InitHandle ==
    /\ AutoConfigUnused
    /\ op = "init"
    /\ args = <<>>
    /\ ret = None
    /\ files = <<>>
    /\ stdin = [text |-> <<>>, closed |-> FALSE]
    /\ stdout = <<>>
    /\ writes = <<>>
    /\ web \in {[url \in {HandleUrl} |-> answer] : answer \in HandleAnswers}
    /\ handle = [url |-> HandleUrl, response |-> "response", _closed |-> FALSE]
    /\ response = requests_get(HandleUrl)
    /\ GO = TRUE
    /\ PIPE_OK = TRUE
    /\ hooks = [SIGINT |-> "default_int_handler", SIGPIPE |-> "SIG_IGN",
                excepthook |-> "__excepthook__"]
    /\ stderr = [closed |-> FALSE, tracebacks |-> <<>>]
    /\ handled = <<>>
    /\ main_call = NotCalled
    /\ exit_status = <<>>

handle_frame ==
    <<auto_config_vars, files, stdin, stdout, writes, web,
      GO, PIPE_OK, hooks, stderr, handled, main_call, exit_status>>

\* The handle and its response as an operation leaves them, with its result
HandleBecomes(w) ==
    /\ handle' = w.handle
    /\ response' = w.response
    /\ ret' = w.ret
    /\ UNCHANGED handle_frame

CallEnter ==
    /\ op' = "__enter__"
    /\ args' = <<>>
    /\ HandleBecomes([World EXCEPT !.ret = [tag |-> "self", chars |-> <<>>]])

CallExit ==
    /\ op' = "__exit__"
    /\ args' = <<>>
    /\ HandleBecomes([exit(World) EXCEPT !.ret = False])

CallClose ==
    /\ op' = "close"
    /\ args' = <<>>
    /\ HandleBecomes(close(World))

CallGetvalue ==
    /\ op' = "getvalue"
    /\ args' = <<>>
    /\ HandleBecomes(getvalue(World))

CallRead ==
    \E size \in {None, Int(1)} :
        /\ op' = "read"
        /\ args' = <<size>>
        /\ HandleBecomes(read(World, size))

CallReadable ==
    /\ op' = "readable"
    /\ args' = <<>>
    /\ HandleBecomes([World EXCEPT !.ret = Bool(readable(World))])

CallReadline ==
    /\ op' = "readline"
    /\ args' = <<>>
    /\ HandleBecomes(readline(World))

CallTell ==
    /\ op' = "tell"
    /\ args' = <<>>
    /\ HandleBecomes(tell(World))

\* seek, truncate and write
CallNotImplemented ==
    \E name \in {"seek", "truncate", "write"} :
        /\ op' = name
        /\ args' = <<>>
        /\ HandleBecomes(not_implemented(World))

\* seekable and writable
CallCapability ==
    \E name \in {"seekable", "writable"} :
        /\ op' = name
        /\ args' = <<>>
        /\ HandleBecomes([World EXCEPT !.ret = False])

NextHandle ==
    \/ CallEnter
    \/ CallExit
    \/ CallClose
    \/ CallGetvalue
    \/ CallRead
    \/ CallReadable
    \/ CallReadline
    \/ CallTell
    \/ CallNotImplemented
    \/ CallCapability

SpecHandle == InitHandle /\ [][NextHandle]_vars

----------------------------------------------------------------------------
(* Claims about the RequestsHandle *)

\* C16 as stated: once the handle has been closed, read, readline, getvalue
\* and tell raise ValueError.
C16_ClosedRaisesValueError ==
    [][(handle._closed /\ op' \in {"read", "readline", "getvalue", "tell"})
        => ret' = Raise("ValueError")]_vars

\* C17 as stated: a close of a handle that is already closed changes no field
\* of the handle and does not call the response's close again, and after
\* any close the handle is not readable.
C17_CloseIdempotent ==
    [][(op' = "close") =>
        /\ ~(handle'.response # "None" /\ ~handle'._closed)
        /\ handle._closed =>
            /\ handle' = handle
            /\ response'.closes = response.closes]_vars

----------------------------------------------------------------------------
(* The help of a command, found in its docstrings *)

\* A method with its docstring (a str or None) and whether it is marked abstract
Method(doc, isabstractmethod) ==
    [tag |-> "method", doc |-> doc, isabstractmethod |-> isabstractmethod]

\* getattr(command, "main", object) of a command without a main: the class
\* object, which is not abstract and has a docstring of its own.
object == Method(Str(<<"T", "h", "e", " ", "b", "a", "s", "e">>), FALSE)

\* A find_method_help that reads the docstring of an abstract method too.
find_method_help_of_any(method) ==
    IF method.tag = "None" THEN None ELSE method.doc

find_method_help(method) ==
    IF method.tag = "None" THEN None
    ELSE IF method.isabstractmethod THEN None
    ELSE method.doc

\* A command: whether its class has abstract methods left, its attributes
\* main (when it has one) and __init__, the docstring of its class, and the
\* docstring of its module (None also when the module is not loaded).
Command(abstractmethods, attributes, doc, module_doc) ==
    [tag |-> "object", abstractmethods |-> abstractmethods,
     attributes |-> attributes, doc |-> doc, module_doc |-> module_doc]

\* getattr(command, name, object)
getattr(command, name) ==
    IF name \in DOMAIN command.attributes THEN command.attributes[name] ELSE object

find_command_help(command) ==
    IF command.tag = "None" THEN None
    ELSE IF command.abstractmethods THEN None
    ELSE LET docs == <<find_method_help(getattr(command, "main")),
                       find_method_help(getattr(command, "__init__")),
                       command.doc,
                       command.module_doc>>
             usable(doc) ==
                /\ doc.tag # "None"
                /\ strip_not_empty(doc.chars)
                /\ ~startswith(doc.chars, <<"#">>)
         IN  IF \E i \in DOMAIN docs : usable(docs[i])
             THEN docs[CHOOSE i \in DOMAIN docs :
                        usable(docs[i]) /\ \A j \in 1..(i - 1) : ~usable(docs[j])]
             ELSE None

----------------------------------------------------------------------------
(* find_command_help on any command *)

\* Docstrings: none, an empty and a blank one, one hidden with "#", one with
\* a "#" behind a space, and two to show.
Docstrings ==
    {None, Str(<<>>), Str(<<" ">>), Str(<<"#", "x">>), Str(<<" ", "#">>),
     Str(<<"x">>), Str(<<"y">>)}

Methods == {Method(doc, a) : doc \in Docstrings, a \in BOOLEAN}

Commands ==
    {None} \cup
    {Command(abstractmethods, attributes, doc, module_doc) :
        abstractmethods \in BOOLEAN,
        attributes \in [{"main", "__init__"} -> Methods] \cup [{"__init__"} -> Methods],
        doc \in Docstrings,
        module_doc \in {None, Str(<<"#", "x">>), Str(<<"y">>)}}

InitDoc ==
    /\ AutoConfigUnused
    /\ CmdAtImport
    /\ op = "init"
    /\ args \in Commands
    /\ ret = None

CallFindCommandHelp ==
    /\ op = "init"
    /\ op' = "find_command_help"
    /\ ret' = find_command_help(args)
    /\ UNCHANGED <<auto_config_vars, args, cmd_vars>>

NextDoc == CallFindCommandHelp

SpecDoc == InitDoc /\ [][NextDoc]_vars

\* C18: for a command (an object with a main), find_command_help returns None
\* when its class has abstract methods left, and otherwise the first of
\* main's docstring, __init__'s docstring, the class docstring and the module
\* docstring that is not blank and does not start with "#", the docstring of
\* a method marked abstract being passed over; None when there is none.
C18_FirstUsableDocstring ==
    (op = "find_command_help" /\ args.tag = "object" /\ "main" \in DOMAIN args.attributes) =>
        LET main == args.attributes["main"]
            init == args.attributes["__init__"]
            candidates ==
                (IF main.isabstractmethod THEN <<>> ELSE <<main.doc>>)
                \o (IF init.isabstractmethod THEN <<>> ELSE <<init.doc>>)
                \o <<args.doc, args.module_doc>>
            good(doc) ==
                /\ doc.tag = "str"
                /\ \E i \in DOMAIN doc.chars : doc.chars[i] \notin Whitespace
                /\ doc.chars[1] # "#"
            rest == SelectSeq(candidates, good)
        IN  IF args.abstractmethods \/ rest = <<>>
            THEN ret = None
            ELSE ret = Head(rest)

\* main's docstring is hidden with "#", __init__ is marked abstract and has a
\* docstring, the class docstring is blank: the module docstring is the help.
C18_Witness ==
    /\ op = "find_command_help"
    /\ args = Command(FALSE,
                      [name \in {"main", "__init__"} |->
                          IF name = "main" THEN Method(Str(<<"#", "x">>), FALSE)
                          ELSE Method(Str(<<"x">>), TRUE)],
                      Str(<<" ">>), Str(<<"y">>))
    /\ ret = Str(<<"y">>)

----------------------------------------------------------------------------
(* Signals and uncaught exceptions *)

SIGINT == 2
SIGPIPE == 13

\* The state the handlers work on
Process ==
    [GO |-> GO, PIPE_OK |-> PIPE_OK, hooks |-> hooks, stderr |-> stderr,
     handled |-> handled, exit_status |-> exit_status, ret |-> None]

ProcessBecomes(p) ==
    /\ GO' = p.GO
    /\ PIPE_OK' = p.PIPE_OK
    /\ hooks' = p.hooks
    /\ stderr' = p.stderr
    /\ handled' = p.handled
    /\ exit_status' = p.exit_status
    /\ ret' = p.ret

\* hasattr(signal, "SIGPIPE"): not on Windows
has_SIGPIPE(p) == p.hooks.SIGPIPE # "absent"

\* sys.exit(status)
exit_with(p, status) == [p EXCEPT !.exit_status = <<status>>]

\* A handler that stops the process on the first signal of any kind.
handle_signal_at_once(p, signum) ==
    exit_with([p EXCEPT !.handled = Append(@, signum), !.GO = FALSE], 128 + signum)

handle_signal(p, signum) ==
    LET called == [p EXCEPT !.handled = Append(@, signum)]
    IN  IF has_SIGPIPE(p) /\ signum = SIGPIPE
        THEN exit_with([called EXCEPT !.PIPE_OK = FALSE, !.stderr.closed = TRUE],
                       128 + signum)
        ELSE IF ~p.GO
             THEN exit_with(called, 128 + signum)
             ELSE [called EXCEPT !.GO = FALSE]

\* A handle_keyboard_interrupt that also arms the loops again.
handle_keyboard_interrupt_rearming(p) ==
    [p EXCEPT !.hooks.SIGINT = "handle_signal", !.GO = TRUE]

\* handle_keyboard_interrupt()
handle_keyboard_interrupt(p) == [p EXCEPT !.hooks.SIGINT = "handle_signal"]

\* Exception types: BrokenPipeError, a class derived from it, and others
ExceptionTypes == {"BrokenPipeError", "ChildOfBrokenPipeError", "KeyboardInterrupt", "ValueError"}

\* sys.__excepthook__: the traceback goes to stderr, when that is open
default_excepthook(p, exc_type) ==
    IF p.stderr.closed THEN p
    ELSE [p EXCEPT !.stderr.tracebacks = Append(@, exc_type)]

\* A hook that notes every exception that is a BrokenPipeError (issubclass).
broken_pipe_except_hook_issubclass(p, exc_type) ==
    IF exc_type \in {"BrokenPipeError", "ChildOfBrokenPipeError"}
    THEN [p EXCEPT !.PIPE_OK = FALSE]
    ELSE default_excepthook(p, exc_type)

broken_pipe_except_hook(p, exc_type) ==
    IF exc_type = "BrokenPipeError"
    THEN [p EXCEPT !.PIPE_OK = FALSE]
    ELSE default_excepthook(p, exc_type)

\* sys.excepthook(exc_type, ...)
excepthook(p, exc_type) ==
    IF p.hooks.excepthook = "broken_pipe_except_hook"
    THEN broken_pipe_except_hook(p, exc_type)
    ELSE default_excepthook(p, exc_type)

ignore_broken_pipe_error(p) ==
    IF has_SIGPIPE(p)
    THEN [p EXCEPT !.hooks.excepthook = "broken_pipe_except_hook",
                   !.hooks.SIGPIPE = "SIG_DFL",
                   !.ret = True]
    ELSE [p EXCEPT !.ret = False]

stop_on_broken_pipe_error(p) ==
    IF has_SIGPIPE(p)
    THEN [p EXCEPT !.hooks.excepthook = "broken_pipe_except_hook",
                   !.hooks.SIGPIPE = "handle_signal",
                   !.ret = True]
    ELSE [p EXCEPT !.ret = False]

----------------------------------------------------------------------------
(* A process that installs the handlers, receives signals and lets
   exceptions escape, until it exits *)

signal_frame ==
    <<auto_config_vars, files, stdin, stdout, writes, web, handle, response, main_call>>

\* The class body of Jmullan has run; Python ignores SIGPIPE where there is
\* one, and raises KeyboardInterrupt on SIGINT unless the process was
\* started with SIGINT ignored.
InitSignal ==
    /\ AutoConfigUnused
    /\ op = "init"
    /\ args = <<>>
    /\ ret = None
    /\ files = <<>>
    /\ stdin = [text |-> <<>>, closed |-> FALSE]
    /\ stdout = <<>>
    /\ writes = <<>>
    /\ web = <<>>
    /\ handle = None
    /\ response = None
    /\ GO = TRUE
    /\ PIPE_OK = TRUE
    /\ hooks \in {[SIGINT |-> i, SIGPIPE |-> s, excepthook |-> "__excepthook__"] :
                    i \in {"default_int_handler", "SIG_IGN"},
                    s \in {"SIG_IGN", "absent"}}
    /\ stderr = [closed |-> FALSE, tracebacks |-> <<>>]
    /\ handled = <<>>
    /\ main_call = NotCalled
    /\ exit_status = <<>>

CallHandleKeyboardInterrupt ==
    /\ exit_status = <<>>
    /\ op' = "handle_keyboard_interrupt"
    /\ args' = <<>>
    /\ ProcessBecomes(handle_keyboard_interrupt(Process))
    /\ UNCHANGED signal_frame

CallStopOnBrokenPipeError ==
    /\ exit_status = <<>>
    /\ op' = "stop_on_broken_pipe_error"
    /\ args' = <<>>
    /\ ProcessBecomes(stop_on_broken_pipe_error(Process))
    /\ UNCHANGED signal_frame

CallIgnoreBrokenPipeError ==
    /\ exit_status = <<>>
    /\ op' = "ignore_broken_pipe_error"
    /\ args' = <<>>
    /\ ProcessBecomes(ignore_broken_pipe_error(Process))
    /\ UNCHANGED signal_frame

\* A signal arrives and the handler installed for it runs: handle_signal,
\* Python's default_int_handler (a KeyboardInterrupt that nothing catches),
\* SIG_IGN, or SIG_DFL (the process is killed by the signal).
DeliverSignal ==
    \E signum \in {SIGINT, SIGPIPE} :
        LET handler == IF signum = SIGINT THEN hooks.SIGINT ELSE hooks.SIGPIPE
        IN  /\ exit_status = <<>>
            /\ handler # "absent"
            /\ op' = handler
            /\ args' = <<signum>>
            /\ ProcessBecomes(
                CASE handler = "handle_signal" -> handle_signal(Process, signum)
                  [] handler = "default_int_handler" ->
                        exit_with(excepthook(Process, "KeyboardInterrupt"), 128 + signum)
                  [] handler = "SIG_IGN" -> Process
                  [] handler = "SIG_DFL" -> exit_with(Process, 128 + signum))
            /\ UNCHANGED signal_frame

\* An exception that nothing catches: sys.excepthook runs and the process
\* exits with status 1.
UncaughtException ==
    \E exc_type \in ExceptionTypes :
        /\ exit_status = <<>>
        /\ op' = "excepthook"
        /\ args' = <<exc_type>>
        /\ ProcessBecomes(exit_with(excepthook(Process, exc_type), 1))
        /\ UNCHANGED signal_frame

NextSignal ==
    \/ CallHandleKeyboardInterrupt
    \/ CallStopOnBrokenPipeError
    \/ CallIgnoreBrokenPipeError
    \/ DeliverSignal
    \/ UncaughtException

SpecSignal == InitSignal /\ [][NextSignal]_vars

----------------------------------------------------------------------------
(* Claims about signals *)

\* C19: GO is true when the process starts; the first SIGINT that
\* handle_signal is called with sets GO to false and the process runs on,
\* and every later one exits the process with status 128 + SIGINT.
C19_TwoSignalStop ==
    [][(op' = "handle_signal" /\ args' = <<SIGINT>>) =>
        IF \A i \in DOMAIN handled : handled[i] # SIGINT
        THEN GO /\ ~GO' /\ exit_status' = <<>>
        ELSE exit_status' = <<128 + SIGINT>>]_vars

\* Two SIGINTs have been handled, and the process has exited with 130.
C19_Witness ==
    /\ handled = <<SIGINT, SIGINT>>
    /\ ~GO
    /\ exit_status = <<130>>

\* C20: where there is a SIGPIPE, stop_on_broken_pipe_error installs
\* handle_signal for it and broken_pipe_except_hook as sys.excepthook;
\* handle_signal called with SIGPIPE sets PIPE_OK to false, closes stderr and
\* exits with 128 + SIGPIPE, leaving GO as it is; broken_pipe_except_hook
\* sets PIPE_OK to false and prints no traceback for a BrokenPipeError, and
\* for every other type leaves PIPE_OK and prints the traceback.
C20_BrokenPipeStops ==
    [][/\ (op' = "stop_on_broken_pipe_error" /\ hooks.SIGPIPE # "absent") =>
            /\ hooks'.SIGPIPE = "handle_signal"
            /\ hooks'.excepthook = "broken_pipe_except_hook"
       /\ (op' = "handle_signal" /\ args' = <<SIGPIPE>>) =>
            /\ ~PIPE_OK'
            /\ stderr'.closed
            /\ exit_status' = <<128 + SIGPIPE>>
            /\ GO' = GO
       /\ (op' = "excepthook" /\ hooks.excepthook = "broken_pipe_except_hook") =>
            IF args' = <<"BrokenPipeError">>
            THEN ~PIPE_OK' /\ stderr' = stderr
            ELSE /\ PIPE_OK' = PIPE_OK
                 /\ stderr'.tracebacks = stderr.tracebacks \o args']_vars

\* After a SIGINT, which set GO to false, a SIGPIPE has stopped the process.
C20_Witness ==
    /\ hooks.excepthook = "broken_pipe_except_hook"
    /\ handled = <<SIGINT, SIGPIPE>>
    /\ ~GO
    /\ ~PIPE_OK
    /\ stderr.closed
    /\ exit_status = <<141>>

----------------------------------------------------------------------------
(* A TextIoLineProcessor run by main(), step by step, while signals arrive *)

\* The most calls of main() in one process.
MaxRuns == 2

MainFile == <<"f">>
MainUrl == Http \o <<"h">>
MainNames == {Dash, MainFile, MainUrl}

\* A process that has just imported cmd.py, on a system with SIGPIPE; the
\* file exists and the server answers.
InitMain ==
    /\ AutoConfigUnused
    /\ op = "init"
    /\ args = <<>>
    /\ ret = None
    /\ files \in {[path \in {MainFile} |-> c] : c \in Contents}
    /\ stdin = [text |-> <<"A", "\n", "b">>, closed |-> FALSE]
    /\ stdout = <<>>
    /\ writes = <<>>
    /\ web = [url \in {MainUrl} |->
                [text |-> <<"a", "\n">>, close_errors |-> 0, read_error |-> FALSE]]
    /\ handle = None
    /\ response = None
    /\ GO = TRUE
    /\ PIPE_OK = TRUE
    /\ hooks = [SIGINT |-> "default_int_handler", SIGPIPE |-> "SIG_IGN",
                excepthook |-> "__excepthook__"]
    /\ stderr = [closed |-> FALSE, tracebacks |-> <<>>]
    /\ handled = <<>>
    /\ main_call = NotCalled
    /\ exit_status = <<>>

\* Main.setup, called by main(): the handlers are installed and the command
\* line is parsed; then get_filenames gives the list the loop goes through.
CallMain ==
    \E filenames \in SeqsUpTo(MainNames, MaxFilenames), method \in {"echo", "starts_a"} :
        /\ exit_status = <<>>
        /\ main_call.pc \in {"idle", "returned"}
        /\ main_call.run < MaxRuns
        /\ op' = "main"
        /\ args' = <<>>
        /\ ProcessBecomes(
            [handle_keyboard_interrupt(stop_on_broken_pipe_error(Process))
                EXCEPT !.ret = None])
        /\ main_call' =
            [NotCalled EXCEPT !.pc = "loop",
                              !.run = main_call.run + 1,
                              !.method = method,
                              !.filenames = get_filenames([filenames |-> List(filenames)]),
                              !.i = 1]
        /\ UNCHANGED <<auto_config_vars, files, stdin, stdout, writes, web, handle, response>>

\* The for statement of main() ends: the list is exhausted, or GO is false
\* and the loop breaks.
LoopEnd ==
    /\ exit_status = <<>>
    /\ main_call.pc = "loop"
    /\ main_call.i > Len(main_call.filenames) \/ ~GO
    /\ op' = "main"
    /\ main_call' = [main_call EXCEPT !.pc = "returned"]
    /\ UNCHANGED <<auto_config_vars, args, ret, files, stdin, stdout, writes, web,
                   handle, response, GO, PIPE_OK, hooks, stderr, handled, exit_status>>

\* process_filename(filename) is called: open_file_or_stdin, and the for
\* statement of process_file_handle asks the handle for its iterator.  What
\* raises here is caught by nothing: sys.excepthook runs and the process
\* exits with status 1.
ProcessFilename ==
    LET filename == main_call.filenames[main_call.i]
        called == [main_call EXCEPT !.started = Append(@, filename),
                                    !.line_calls = <<>>]
        opened == RequestsHandle(World, filename)
    IN  /\ exit_status = <<>>
        /\ main_call.pc = "loop"
        /\ main_call.i <= Len(main_call.filenames)
        /\ GO
        /\ op' = "process_filename"
        /\ args' = <<filename>>
        /\ UNCHANGED <<auto_config_vars, files, stdout, writes, web, stdin>>
        /\ IF filename = Dash /\ ~stdin.closed
           THEN /\ main_call' = [called EXCEPT !.pc = "lines",
                                               !.text = stdin.text,
                                               !.lines = lines_of(stdin.text)]
                /\ UNCHANGED <<handle, response>>
                /\ ProcessBecomes(Process)
           ELSE IF filename = Dash
           THEN /\ main_call' = [called EXCEPT !.pc = "raised", !.text = <<>>]
                /\ UNCHANGED <<handle, response>>
                /\ ProcessBecomes(
                    [exit_with(excepthook(Process, "ValueError"), 1)
                        EXCEPT !.ret = Raise("ValueError")])
           ELSE IF is_url(filename) /\ ~raised(opened)
           THEN /\ main_call' = [called EXCEPT !.pc = "raised",
                                               !.text = web[filename].text]
                /\ handle' = exit(opened).handle
                /\ response' = exit(opened).response
                /\ ProcessBecomes(
                    [exit_with(excepthook(Process, "TypeError"), 1)
                        EXCEPT !.ret = Raise("TypeError")])
           ELSE IF is_url(filename)
           THEN /\ main_call' = [called EXCEPT !.pc = "raised", !.text = <<>>]
                /\ UNCHANGED <<handle, response>>
                /\ ProcessBecomes(
                    [exit_with(excepthook(Process, "ConnectionError"), 1)
                        EXCEPT !.ret = opened.ret])
           ELSE IF filename \in DOMAIN files
           THEN /\ main_call' = [called EXCEPT !.pc = "lines",
                                               !.text = files[filename],
                                               !.lines = lines_of(files[filename])]
                /\ UNCHANGED <<handle, response>>
                /\ ProcessBecomes(Process)
           ELSE /\ main_call' = [called EXCEPT !.pc = "raised", !.text = <<>>]
                /\ UNCHANGED <<handle, response>>
                /\ ProcessBecomes(
                    [exit_with(excepthook(Process, "FileNotFoundError"), 1)
                        EXCEPT !.ret = Raise("FileNotFoundError")])

\* process_filename returns: the with block closes the handle (sys.stdin
\* too), and the loop of main() goes to the next filename.
file_done(call) ==
    [call EXCEPT !.pc = "loop",
                 !.finished = Append(@, call.filenames[call.i]),
                 !.i = @ + 1,
                 !.lines = <<>>]

stdin_left ==
    IF main_call.filenames[main_call.i] = Dash
    THEN [text |-> <<>>, closed |-> TRUE]
    ELSE stdin

\* One turn of the for statement of process_file_handle: the next line is
\* taken from the handle; the loop breaks when GO is false, and otherwise
\* process_line is called and its text written when it says so.
ProcessLine ==
    LET line == Head(main_call.lines)
        result == process_line(main_call.method, line)
    IN  /\ exit_status = <<>>
        /\ main_call.pc = "lines"
        /\ main_call.lines # <<>>
        /\ op' = "process_file_handle"
        /\ args' = <<line>>
        /\ IF ~GO
           THEN /\ main_call' = file_done(main_call)
                /\ stdin' = stdin_left
                /\ stdout' = stdout
           ELSE /\ main_call' = [main_call EXCEPT !.lines = Tail(@),
                                                 !.line_calls = Append(@, line)]
                /\ stdin' = stdin
                /\ stdout' = IF result.should_print
                             THEN stdout \o result.processed
                             ELSE stdout
        /\ UNCHANGED <<auto_config_vars, ret, files, writes, web, handle, response,
                       GO, PIPE_OK, hooks, stderr, handled, exit_status>>

\* The handle has no more lines.
EndOfFile ==
    /\ exit_status = <<>>
    /\ main_call.pc = "lines"
    /\ main_call.lines = <<>>
    /\ op' = "process_file_handle"
    /\ args' = <<>>
    /\ main_call' = file_done(main_call)
    /\ stdin' = stdin_left
    /\ UNCHANGED <<auto_config_vars, ret, files, stdout, writes, web, handle, response,
                   GO, PIPE_OK, hooks, stderr, handled, exit_status>>

NextMain ==
    \/ CallMain
    \/ LoopEnd
    \/ ProcessFilename
    \/ ProcessLine
    \/ EndOfFile
    \/ DeliverSignal
    \/ UncaughtException

SpecMain == InitMain /\ [][NextMain]_vars

----------------------------------------------------------------------------
(* Claims about the loops of main() and process_file_handle *)

IsPrefix(s, t) == Len(s) <= Len(t) /\ \A k \in 1..Len(s) : s[k] = t[k]

\* main() is over: it returned, or an exception left it.
MainOver == main_call.pc \in {"returned", "raised"}

\* C21 as stated: main() calls process_filename for the filenames in the
\* order of the command line, once each; no call starts once GO is false, the
\* call that was running is still finished, and when GO is still true at the
\* end every filename has been processed.
C21_EveryFilenameInOrder ==
    /\ [](/\ IsPrefix(main_call.started, main_call.filenames)
          /\ IsPrefix(main_call.finished, main_call.started)
          /\ main_call.pc = "returned" => main_call.finished = main_call.started
          /\ (MainOver /\ GO) => main_call.finished = main_call.filenames)
    /\ [][op' = "process_filename" => GO]_vars

\* C22 as stated: process_file_handle passes the lines of the handle to
\* process_line in order, once each, and writes exactly the processed text of
\* the lines process_line wants printed; once GO is false no line is passed
\* on and nothing is written; and with GO still true when the handle has been
\* dealt with, every line of it has been passed on.
C22_LinesInOrder ==
    /\ [](/\ IsPrefix(main_call.line_calls, lines_of(main_call.text))
          /\ (main_call.pc # "lines" /\ GO) =>
                main_call.line_calls = lines_of(main_call.text))
    /\ [][LET before == main_call.line_calls
              after == main_call'.line_calls
              result == process_line(main_call.method, after[Len(after)])
          IN  IF Len(after) = Len(before) + 1
              THEN /\ GO
                   /\ stdout' = stdout \o (IF result.should_print
                                           THEN result.processed
                                           ELSE <<>>)
              ELSE stdout' = stdout]_vars

\* C23: GO and PIPE_OK only go from true to false, whatever is called and
\* whatever arrives, and while GO is false no processing loop handles
\* anything: no process_filename call starts and no line is passed to
\* process_line, in this run of main() and in every later one.
C23_FlagsOnlyFall ==
    [][/\ GO' => GO
       /\ PIPE_OK' => PIPE_OK
       /\ ~GO =>
            /\ main_call'.started \in {<<>>, main_call.started}
            /\ main_call'.line_calls \in {<<>>, main_call.line_calls}]_vars

\* A run of main() was interrupted, and the next run, asked for filenames,
\* has returned with none of them handled.
C23_Witness ==
    /\ main_call.run = 2
    /\ main_call.pc = "returned"
    /\ main_call.filenames # <<>>
    /\ main_call.started = <<>>
    /\ ~GO
    /\ handled = <<SIGINT>>
    /\ exit_status = <<>>

----------------------------------------------------------------------------
(* Claims about reading a RequestsHandle *)

\* C24 as stated: after any read(), returning or raising, the handle has
\* released its response and is not readable, so that a read that follows a
\* read returns None.
C24_ReadReleases ==
    [][(op' = "read") =>
        /\ handle'.response = "None"
        /\ ~(handle'.response # "None" /\ ~handle'._closed)
        /\ op = "read" => ret' = None]_vars

----------------------------------------------------------------------------
(* Claims about the defaults of the arguments *)

\* C25 as stated: a command line with neither --name nor --no-name leaves in
\* the destination the default add_boolean_argument computed: True, False, or
\* None when there was nothing to compute it from.
C25_NeitherFlagGivesDefault ==
    (op = "parse_args" /\ args.argv = <<>>) =>
        /\ ~ret.parsed.error
        /\ ret.parsed.namespace["foo_bar"] = ret.default

\* C26 as stated: the default of add_argument is the value of the first
\* listed variable that is set in the environment, and the fallback when
\* none is set; of the environment-variable lines of its help, the line of
\* that variable carries the true mark and every other line the dot mark.
C26_FirstSetVariableDecides ==
    op = "add_argument" =>
        LET first == FirstSet(args.var_names)
            keys == dict_of(args.var_names, {})
        IN  /\ ret.option.default =
                    IF first # 0
                    THEN Str(environ[args.var_names[first]])
                    ELSE args.fallback
            /\ \A i \in DOMAIN keys :
                    IF first # 0 /\ keys[i] = args.var_names[first]
                    THEN ret.help[i + 1].mark \in {<<CheckMark>>, <<PlusSign>>}
                    ELSE ret.help[i + 1].mark \in {<<MiddleDot>>, <<MinusSign>>}

====
